---------------------------- MODULE Spec2Model ----------------------------
(***************************************************************************)
(* A model of booktop's terminal user interface (src/src/tui.rs) and of    *)
(* the Bookcase, Book and Filter code it calls (books.rs, book.rs,         *)
(* filter.rs).                                                             *)
(*                                                                         *)
(* Strings are sequences of one-character strings.  Option<T> is a         *)
(* sequence of length at most one: None is << >>, Some(x) is <<x>>.        *)
(* usize and isize keep a width (UsizeBits) so that saturation and         *)
(* wrap-around are visible.                                                *)
(***************************************************************************)
EXTENDS Integers, Sequences, FiniteSets, TLC

VARIABLES
    build,          \* "debug" (overflow checks panic) or "release" (wrap)
    render,         \* what the table/list widget does to an out-of-range selection
    pc,             \* position in start_tui / run_tui / run_popup_*
    outcome,        \* "running", "ok", "io_error" or the panic that ended the program
    raw,            \* terminal raw mode is enabled
    bookcase,       \* Bookcase.books: id -> Book
    visible_books,  \* App.visible_books
    selected,       \* App.state.selected(): Option<usize>
    popup,          \* App.popup: "None", "Book", "Filter"
    filter_popup,   \* Option<FilterPopupApp>, Some while run_popup_filter runs
    book_popup,     \* Option<BookPopupApp>, Some while run_popup_book runs
    fuel,           \* popup keys (other than Enter and Esc) still to be pressed
    last            \* the last operation, its argument and what it returned (history)

vars == <<build, render, pc, outcome, raw, bookcase, visible_books, selected,
          popup, filter_popup, book_popup, fuel, last>>

---------------------------------------------------------------------------
(* Bounds of the model *)

\* width of usize / isize in bits
UsizeBits == 4
\* popup keys (other than Enter/Esc) pressed in one run of the whole program
MaxPopupKeys == 2

USIZE_MAX == 2^UsizeBits - 1
ISIZE_MAX == 2^(UsizeBits - 1) - 1
ISIZE_MIN == -(2^(UsizeBits - 1))
Usize == 0..USIZE_MAX
Isize == ISIZE_MIN..ISIZE_MAX

None == << >>
Some(x) == <<x>>

Range(s) == {s[k] : k \in DOMAIN s}

Min(a, b) == IF a < b THEN a ELSE b
Max(a, b) == IF a > b THEN a ELSE b

---------------------------------------------------------------------------
(* Characters and strings *)

\* the characters typed into the book editor
Chars == {",", "a", "b"}

\* the byte value of a character (String::cmp compares bytes)
Ord(c) == CASE c = "," -> 44 [] c = "A" -> 65 [] c = "a" -> 97 [] c = "b" -> 98

\* u8::to_ascii_lowercase, used by str::eq_ignore_ascii_case
ToAsciiLower(c) == IF c = "A" THEN "a" ELSE c

StrLower(s) == [k \in DOMAIN s |-> ToAsciiLower(s[k])]

\* String::cmp(s, t) = Ordering::Less: lexicographic on bytes
RECURSIVE StrLess(_, _)
StrLess(s, t) ==
    IF t = << >> THEN FALSE
    ELSE IF s = << >> THEN TRUE
    ELSE IF Ord(Head(s)) # Ord(Head(t)) THEN Ord(Head(s)) < Ord(Head(t))
    ELSE StrLess(Tail(s), Tail(t))

SEPARATOR_CHAR == ","

---------------------------------------------------------------------------
(* book.rs *)

ReadAll == <<"Read", "Reading", "Stopped", "Unread">>

Book(title, author, read, tags) ==
    [title |-> title, author |-> author, read |-> read, tags |-> tags]

\* Book::cmp_by(other, sorting) = Ordering::Less
CmpByLess(b1, b2, sorting) ==
    IF sorting = "Title" THEN StrLess(b1.title, b2.title)
    ELSE StrLess(b1.author, b2.author)

---------------------------------------------------------------------------
(* books.rs *)

\* the ascending sequence of the elements of a finite set of integers
RECURSIVE SortedSeq(_)
SortedSeq(S) ==
    IF S = {} THEN << >>
    ELSE LET m == CHOOSE x \in S : \A y \in S : x <= y
         IN <<m>> \o SortedSeq(S \ {m})

\* self.books.keys(): a BTreeMap iterates in ascending key order
Keys(bc) == SortedSeq(DOMAIN bc)

\* Bookcase::get_book
GetBook(bc, id) == IF id \in DOMAIN bc THEN Some(bc[id]) ELSE None

\* Bookcase::get_books_by_keys: the map's entries, in the map's order, whose
\* key is among keys
GetBooksByKeys(bc, keys) ==
    SelectSeq(Keys(bc), LAMBDA k : k \in Range(keys))

\* Vec::dedup: removes consecutive repeated elements
RECURSIVE Dedup(_)
Dedup(s) ==
    IF Len(s) <= 1 THEN s
    ELSE IF s[1] = s[2] THEN Dedup(Tail(s))
    ELSE <<s[1]>> \o Dedup(Tail(s))

\* Bookcase::get_authors
GetAuthors(bc) == Dedup([k \in 1..Len(Keys(bc)) |-> bc[Keys(bc)[k]].author])

\* the set a HashSet<String> collects in Bookcase::get_tags
TagSet(bc) == UNION {bc[id].tags : id \in DOMAIN bc}

\* the sequences without repetition that enumerate a set: the orders in which
\* a HashSet may be iterated
Orders(S) ==
    {s \in [1..Cardinality(S) -> S] : \A x \in S : \E k \in DOMAIN s : s[k] = x}

\* get_tags that keeps the tags of the first book only
GetTagsOfFirstBook(bc) ==
    IF DOMAIN bc = {} THEN {<< >>} ELSE Orders(bc[Keys(bc)[1]].tags)

\* Bookcase::get_tags: the possible results
GetTags(bc) == Orders(TagSet(bc))

---------------------------------------------------------------------------
(* filter.rs *)

\* string_match
StringMatch(s1, s2) == StrLower(s1) = StrLower(s2)

\* match_book that is content with one matching dimension
MatchBookAnyDimension(f, book) ==
    \/ \/ f.author_match = << >>
       \/ \E k \in DOMAIN f.author_match : StringMatch(f.author_match[k], book.author)
    \/ \/ f.read = {}
       \/ book.read \in f.read
    \/ \/ f.tags = << >>
       \/ \E k \in DOMAIN f.tags : f.tags[k] \in book.tags

\* Filter::match_book
MatchBook(f, book) ==
    /\ \/ f.author_match = << >>
       \/ \E k \in DOMAIN f.author_match : StringMatch(f.author_match[k], book.author)
    /\ \/ f.read = {}
       \/ book.read \in f.read
    /\ \/ f.tags = << >>
       \/ \E k \in DOMAIN f.tags : f.tags[k] \in book.tags

\* Filter::filter_books on the (key, book) pairs of bc at the keys ks
FilterBooks(f, bc, ks) == SelectSeq(ks, LAMBDA k : MatchBook(f, bc[k]))

---------------------------------------------------------------------------
(* tui.rs: navigation arithmetic *)

\* usize::saturating_add_signed
SaturatingAddSigned(i, d) == Max(0, Min(USIZE_MAX, i + d))

\* l - 1 on usize overflows when l = 0
MoveByOverflows(i, d, l) == SaturatingAddSigned(i, d) >= l /\ l = 0

\* move_by with the end of the list taken to be l instead of l - 1
MoveByPastEnd(i, d, l) ==
    IF SaturatingAddSigned(i, d) >= l THEN l ELSE SaturatingAddSigned(i, d)

\* fn move_by(i, d, l), when it returns; in a release build l - 1 wraps
MoveBy(i, d, l) ==
    IF SaturatingAddSigned(i, d) >= l
    THEN (l - 1) % (USIZE_MAX + 1)
    ELSE SaturatingAddSigned(i, d)

\* move_to with a positive argument taken as a 0-based index
MoveToZeroBased(i, len) ==
    IF i < 0 THEN SaturatingAddSigned(len, i) ELSE i

\* App::move_to: the index it selects
MoveTo(i, len) ==
    IF i < 0 THEN SaturatingAddSigned(len, i)
    ELSE IF i = 0 THEN 0
    ELSE i - 1


---------------------------------------------------------------------------
(* tui.rs: App *)

\* App::new: every key of the bookcase is visible, row 0 is selected
AppNewVisible(bc) == Keys(bc)
AppNewSelected == Some(0)

\* App::move_by panics: only when a row is selected and move_by overflows
AppMoveByPanics(sel, d, vis) ==
    /\ sel # None
    /\ build = "debug"
    /\ MoveByOverflows(sel[1], d, Len(vis))

\* App::move_by: the new selection
AppMoveBy(sel, d, vis) ==
    IF sel = None THEN sel ELSE Some(MoveBy(sel[1], d, Len(vis)))

\* App::move_to: the new selection
AppMoveTo(i, vis) == Some(MoveTo(i, Len(vis)))

\* filter_currently_visible filtering every book of the bookcase instead of
\* the visible ones
FilterWholeBookcase(f, bc, vis) == FilterBooks(f, bc, Keys(bc))

\* App::filter_currently_visible: the new visible_books
FilterCurrentlyVisible(f, bc, vis) ==
    FilterBooks(f, bc, GetBooksByKeys(bc, vis))

\* reset_visible that takes the ids to be 1..n
ResetVisibleFromOne(bc) == [k \in 1..Cardinality(DOMAIN bc) |-> k]

\* App::reset_visible: the new visible_books
ResetVisible(bc) == Keys(bc)

\* slice::sort_by is a stable sort: insertion of x after every element that
\* is not greater than it
RECURSIVE InsertSorted(_, _, _, _)
InsertSorted(x, s, bc, sorting) ==
    IF s = << >> THEN <<x>>
    ELSE IF CmpByLess(bc[x], bc[Head(s)], sorting) THEN <<x>> \o s
    ELSE <<Head(s)>> \o InsertSorted(x, Tail(s), bc, sorting)

RECURSIVE StableSort(_, _, _)
StableSort(s, bc, sorting) ==
    IF s = << >> THEN << >>
    ELSE InsertSorted(s[Len(s)], StableSort(SubSeq(s, 1, Len(s) - 1), bc, sorting),
                      bc, sorting)

\* sort_by that compares the titles whatever the sorting asked for
SortByTitleOnly(sorting, bc, vis) ==
    StableSort(GetBooksByKeys(bc, vis), bc, "Title")

\* App::sort_by: the new visible_books
SortBy(sorting, bc, vis) == StableSort(GetBooksByKeys(bc, vis), bc, sorting)

\* What rendering a stateful Table or List of n rows leaves in the widget
\* state's selection.  The widget library is not part of the repository and
\* its version decides: it keeps the selection, or clamps an out-of-range
\* selection to the last row, or also clears it when there are no rows.
RenderModes == {"keep", "clamp", "clamp_none"}

RenderSelected(sel, n) ==
    IF render = "keep" \/ sel = None THEN sel
    ELSE IF n = 0 THEN (IF render = "clamp_none" THEN None ELSE Some(0))
    ELSE IF sel[1] >= n THEN Some(n - 1)
    ELSE sel

\* fn draw: the rows are the visible keys present in the bookcase
DrawSelected(sel, bc, vis) == RenderSelected(sel, Len(GetBooksByKeys(bc, vis)))

\* rand::thread_rng().gen_range(0..len): the values it may return
GenRange(len) == 0..(len - 1)

---------------------------------------------------------------------------
(* tui.rs: SelectableList *)

\* SelectableList::new
SelectableListNew(values) ==
    [values |-> values,
     selected |-> [k \in 1..Len(values) |-> FALSE],
     cursor_position |-> 0,
     state |-> None,
     len |-> Len(values)]

\* SelectableList::move_by panics (debug build, l - 1 with l = 0)
ListMoveByPanics(sl, d) ==
    build = "debug" /\ MoveByOverflows(sl.cursor_position, d, sl.len)

\* SelectableList::move_by
ListMoveBy(sl, d) ==
    LET c == MoveBy(sl.cursor_position, d, sl.len)
    IN [sl EXCEPT !.cursor_position = c, !.state = Some(c)]

\* SelectableList::change_selection: selected.get_mut(cursor_position)
ChangeSelection(sl, switch) ==
    LET k == sl.cursor_position + 1
    IN IF k \in DOMAIN sl.selected
       THEN [sl EXCEPT !.selected[k] =
                CASE switch = "Select" -> TRUE
                  [] switch = "Deselect" -> FALSE
                  [] switch = "Toggle" -> ~sl.selected[k]]
       ELSE sl

\* SelectableList::activate, SelectableList::deactivate
Activate(sl) == [sl EXCEPT !.state = Some(sl.cursor_position)]
Deactivate(sl) == [sl EXCEPT !.state = None]

\* zip(values, selected).filter_map(|(a, b)| b.then_some(a)): the values
\* whose flag is set, in the order of the list
SelectedValues(sl) ==
    LET n == Min(Len(sl.values), Len(sl.selected))
        idx == SelectSeq([k \in 1..n |-> k], LAMBDA k : sl.selected[k])
    IN [j \in 1..Len(idx) |-> sl.values[idx[j]]]

\* SelectableList::as_stateful_list followed by render_stateful_widget
RenderList(sl) == [sl EXCEPT !.state = RenderSelected(sl.state, Len(sl.values))]

---------------------------------------------------------------------------
(* tui.rs: FilterPopupApp *)

\* FilterPopupField::next
FilterFieldNext(field) ==
    CASE field = "Author" -> "Read"
      [] field = "Read" -> "Tags"
      [] field = "Tags" -> "Author"

\* FilterPopupApp::new, for one order tags of the bookcase's tags
FilterPopupAppNew(bc, tags) ==
    [authors |-> Activate(SelectableListNew(GetAuthors(bc))),
     read |-> SelectableListNew(ReadAll),
     tags |-> SelectableListNew(tags),
     current_field |-> "Author"]

\* the list of the field that has the focus
CurrentList(app) ==
    CASE app.current_field = "Author" -> app.authors
      [] app.current_field = "Read" -> app.read
      [] app.current_field = "Tags" -> app.tags

\* app with the list of field replaced by sl
WithList(app, field, sl) ==
    CASE field = "Author" -> [app EXCEPT !.authors = sl]
      [] field = "Read" -> [app EXCEPT !.read = sl]
      [] field = "Tags" -> [app EXCEPT !.tags = sl]

\* FilterPopupApp::move_by
FilterPopupMoveBy(app, d) ==
    WithList(app, app.current_field, ListMoveBy(CurrentList(app), d))

\* FilterPopupApp::toggle
FilterPopupToggle(app) ==
    WithList(app, app.current_field, ChangeSelection(CurrentList(app), "Toggle"))

\* FilterPopupApp::deselect
FilterPopupDeselect(app) ==
    WithList(app, app.current_field, ChangeSelection(CurrentList(app), "Deselect"))

\* switch_fields that does not deactivate the list the focus leaves
SwitchFieldsKeepsHighlight(app, new_field) ==
    LET moved == [app EXCEPT !.current_field = new_field]
    IN WithList(moved, new_field, Activate(CurrentList(moved)))

\* FilterPopupApp::switch_fields
SwitchFields(app, new_field) ==
    LET off == WithList(app, app.current_field, Deactivate(CurrentList(app)))
        moved == [off EXCEPT !.current_field = new_field]
    IN WithList(moved, new_field, Activate(CurrentList(moved)))

\* FilterPopupApp::tab
FilterPopupTab(app) == SwitchFields(app, FilterFieldNext(app.current_field))

\* FilterPopupApp::into_filter
IntoFilter(app) ==
    [author_match |-> SelectedValues(app.authors),
     read |-> Range(SelectedValues(app.read)),
     tags |-> << >>]

\* fn draw_popup_filter: the three lists are rendered with their states
DrawPopupFilter(app) ==
    [app EXCEPT !.authors = RenderList(app.authors),
                !.read = RenderList(app.read),
                !.tags = RenderList(app.tags)]

---------------------------------------------------------------------------
(* tui.rs: BookPopupApp *)

\* a popup that starts with no tag entries
BookPopupAppNewNoTags(book, tags) ==
    [book |-> book, tags |-> << >>, current_field |-> "Title"]

\* BookPopupApp::new, for one order tags of the book's tag set
BookPopupAppNew(book, tags) ==
    [book |-> book, tags |-> tags, current_field |-> "Title"]

\* tab that passes over the Read field
BookPopupTabSkipsRead(app) ==
    [app EXCEPT !.current_field =
        CASE app.current_field = "Title" -> "Author"
          [] app.current_field = "Author" -> "Tags"
          [] app.current_field = "Read" -> "Tags"
          [] app.current_field = "Tags" -> "Title"]

\* BookPopupApp::tab
BookPopupTab(app) ==
    [app EXCEPT !.current_field =
        CASE app.current_field = "Title" -> "Author"
          [] app.current_field = "Author" -> "Read"
          [] app.current_field = "Read" -> "Tags"
          [] app.current_field = "Tags" -> "Title"]

\* String::pop: the string without its last character
StrPop(s) == IF s = << >> THEN s ELSE SubSeq(s, 1, Len(s) - 1)

\* BookPopupApp::backspace
BookPopupBackspace(app) ==
    CASE app.current_field = "Author" -> [app EXCEPT !.book.author = StrPop(@)]
      [] app.current_field = "Title" -> [app EXCEPT !.book.title = StrPop(@)]
      [] app.current_field = "Tags" ->
            IF app.tags = << >> THEN app
            ELSE LET t == app.tags[Len(app.tags)]
                     rest == SubSeq(app.tags, 1, Len(app.tags) - 1)
                 IN IF t # << >>
                    THEN [app EXCEPT !.tags = Append(rest, StrPop(t))]
                    ELSE [app EXCEPT !.tags = rest]
      [] OTHER -> app

\* input that takes the separator for a character of the tag
BookPopupInputNoSeparator(app, value) ==
    CASE app.current_field = "Author" ->
            [app EXCEPT !.book.author = Append(@, value)]
      [] app.current_field = "Title" ->
            [app EXCEPT !.book.title = Append(@, value)]
      [] app.current_field = "Tags" ->
            IF app.tags = << >> THEN [app EXCEPT !.tags = <<(<<value>>)>>]
            ELSE [app EXCEPT !.tags[Len(app.tags)] = Append(@, value)]
      [] OTHER -> app

\* BookPopupApp::input
BookPopupInput(app, value) ==
    CASE app.current_field = "Author" ->
            [app EXCEPT !.book.author = Append(@, value)]
      [] app.current_field = "Title" ->
            [app EXCEPT !.book.title = Append(@, value)]
      [] app.current_field = "Tags" ->
            IF app.tags = << >> THEN [app EXCEPT !.tags = <<(<<value>>)>>]
            ELSE LET t == app.tags[Len(app.tags)]
                     rest == SubSeq(app.tags, 1, Len(app.tags) - 1)
                 IN IF value = SEPARATOR_CHAR
                    THEN [app EXCEPT !.tags = Append(Append(rest, t), << >>)]
                    ELSE [app EXCEPT !.tags = Append(rest, Append(t, value))]
      [] OTHER -> app

\* into_book that builds the book anew, in the read state of a new book
IntoBookUnread(app) ==
    Book(app.book.title, app.book.author, "Unread", Range(app.tags))

\* BookPopupApp::into_book
IntoBook(app) == [app.book EXCEPT !.tags = Range(app.tags)]

---------------------------------------------------------------------------
(* The bookcases the program is started on *)

Str(c) == <<c>>

\* Bookcase::new
NewBookcase == << >>

\* util::example_bookcase: two untagged, unread books of different authors
ExampleBookcase ==
    <<Book(Str("a"), Str("a"), "Unread", {}),
      Book(Str("b"), Str("b"), "Unread", {})>>

\* a bookcase as Bookcase::open may load it
LoadedBookcase ==
    <<Book(Str("b"), Str("a"), "Unread", {}),
      Book(Str("a"), Str("b"), "Read", {Str("a")})>>

InitialBookcases == {NewBookcase, LoadedBookcase}

---------------------------------------------------------------------------
(* start_tui and run_tui *)

\* last.res is, while the Book popup runs, the keys that changed a field since
\* it opened, each with the field that had the focus
Last(op, arg, res) ==
    [op |-> op, arg |-> arg, res |-> res]

\* one key of run_popup_book, pressed while field had the focus
Pressed(field, key) == [f |-> field, k |-> key]

Init ==
    /\ build \in {"debug", "release"}
    /\ render \in RenderModes
    /\ pc = "start"
    /\ outcome = "running"
    /\ raw = FALSE
    /\ bookcase \in InitialBookcases
    /\ visible_books = << >>
    /\ selected = None
    /\ popup = "None"
    /\ filter_popup = None
    /\ book_popup = None
    /\ fuel = MaxPopupKeys
    /\ last = Last("none", 0, None)

\* the program ends: start_tui returns or the thread panics, and the App
\* (with any popup) is dropped
Exit(out) ==
    /\ pc' = "done"
    /\ outcome' = out
    /\ visible_books' = << >>
    /\ selected' = None
    /\ popup' = "None"
    /\ filter_popup' = None
    /\ book_popup' = None

\* start_tui line 92: enable_raw_mode()?
EnableRawMode ==
    /\ pc = "start"
    /\ last' = Last("enable_raw_mode", 0, None)
    /\ \/ /\ raw' = TRUE
          /\ pc' = "init"
          /\ UNCHANGED <<outcome, visible_books, selected, popup, filter_popup,
                         book_popup>>
       \/ /\ raw' = FALSE
          /\ Exit("io_error")
    /\ UNCHANGED <<build, render, bookcase, fuel>>

\* start_tui lines 93-99: Terminal::new(backend)?, terminal.clear()?, App::new
TerminalNew ==
    /\ pc = "init"
    /\ last' = Last("app_new", 0, None)
    /\ \/ /\ pc' = "loop"
          /\ visible_books' = AppNewVisible(bookcase)
          /\ selected' = AppNewSelected
          /\ UNCHANGED <<outcome, popup, filter_popup, book_popup>>
       \/ Exit("io_error")
    /\ UNCHANGED <<build, render, raw, bookcase, fuel>>

\* run_tui line 132: terminal.draw(|rect| draw(rect, app))?
Draw ==
    /\ pc = "loop"
    /\ popup = "None"
    /\ last' = Last("draw", 0, None)
    /\ \/ /\ pc' = "poll"
          /\ selected' = DrawSelected(selected, bookcase, visible_books)
          /\ UNCHANGED <<outcome, visible_books, popup, filter_popup, book_popup>>
       \/ Exit("io_error")
    /\ UNCHANGED <<build, render, raw, bookcase, fuel>>

\* run_tui lines 134-135: event::poll(..)? or event::read()? fails
PollFail ==
    /\ pc = "poll"
    /\ last' = Last("poll", 0, None)
    /\ Exit("io_error")
    /\ UNCHANGED <<build, render, raw, bookcase, fuel>>

\* the poll times out, or the event is no key press, or no arm matches
NoKey ==
    /\ pc = "poll"
    /\ pc' = "loop"
    /\ last' = Last("no_key", 0, None)
    /\ UNCHANGED <<build, render, outcome, raw, bookcase, visible_books, selected,
                   popup, filter_popup, book_popup, fuel>>

\* a quit key that is also handled while a popup runs
KeyQuitInPopup ==
    /\ pc \in {"poll", "filter", "book"}
    /\ last' = Last("quit", 0, None)
    /\ \/ raw' = FALSE /\ Exit("ok")
       \/ raw' = raw /\ Exit("io_error")
    /\ UNCHANGED <<build, render, bookcase, fuel>>

\* Char('q') | Esc => return Ok(()); then start_tui line 103: disable_raw_mode()?
KeyQuit ==
    /\ pc = "poll"
    /\ last' = Last("quit", 0, None)
    /\ \/ raw' = FALSE /\ Exit("ok")
       \/ raw' = raw /\ Exit("io_error")
    /\ UNCHANGED <<build, render, bookcase, fuel>>

\* Char('j') | Down => app.move_by(1); Char('k') | Up => app.move_by(-1)
KeyMoveBy ==
    /\ pc = "poll"
    /\ \E d \in {1, -1} :
          /\ last' = Last("move_by", d, None)
          /\ IF AppMoveByPanics(selected, d, visible_books)
             THEN Exit("panic_overflow")
             ELSE /\ pc' = "loop"
                  /\ selected' = AppMoveBy(selected, d, visible_books)
                  /\ UNCHANGED <<outcome, visible_books, popup, filter_popup,
                                 book_popup>>
    /\ UNCHANGED <<build, render, raw, bookcase, fuel>>

\* Char('G') => app.move_to(-1)
KeyMoveToEnd ==
    /\ pc = "poll"
    /\ pc' = "loop"
    /\ selected' = AppMoveTo(-1, visible_books)
    /\ last' = Last("move_to", -1, None)
    /\ UNCHANGED <<build, render, outcome, raw, bookcase, visible_books, popup,
                   filter_popup, book_popup, fuel>>

\* Char('f') => app.popup = Some(Popup::Filter)
KeyFilter ==
    /\ pc = "poll"
    /\ pc' = "loop"
    /\ popup' = "Filter"
    /\ last' = Last("key_filter", 0, None)
    /\ UNCHANGED <<build, render, outcome, raw, bookcase, visible_books, selected,
                   filter_popup, book_popup, fuel>>

\* Char('F') => app.reset_visible(); last.arg is the number of rows before
KeyResetVisible ==
    /\ pc = "poll"
    /\ pc' = "loop"
    /\ visible_books' = ResetVisible(bookcase)
    /\ last' = Last("reset_visible", Len(visible_books), None)
    /\ UNCHANGED <<build, render, outcome, raw, bookcase, selected, popup,
                   filter_popup, book_popup, fuel>>

\* Enter => app.popup = Some(Popup::Book)
KeyEnter ==
    /\ pc = "poll"
    /\ pc' = "loop"
    /\ popup' = "Book"
    /\ last' = Last("key_enter", 0, None)
    /\ UNCHANGED <<build, render, outcome, raw, bookcase, visible_books, selected,
                   filter_popup, book_popup, fuel>>

\* Char('?') => gen_range(0..app.visible_books.len()) panics on an empty
\* range; otherwise app.move_to(n)
KeyRandom ==
    /\ pc = "poll"
    /\ IF visible_books = << >>
       THEN /\ last' = Last("random", 0, None)
            /\ Exit("panic_empty_range")
       ELSE \E n \in GenRange(Len(visible_books)) :
               /\ pc' = "loop"
               /\ selected' = AppMoveTo(n, visible_books)
               /\ last' = Last("random", n, None)
               /\ UNCHANGED <<outcome, visible_books, popup, filter_popup,
                              book_popup>>
    /\ UNCHANGED <<build, render, raw, bookcase, fuel>>

---------------------------------------------------------------------------
(* run_tui lines 110-130: the popup that was asked for runs to its end *)

\* Popup::Filter => run_popup_filter(terminal, app.bookcase): FilterPopupApp::new
OpenFilterPopup ==
    /\ pc = "loop"
    /\ popup = "Filter"
    /\ \E tags \in GetTags(bookcase) :
          filter_popup' = Some(FilterPopupAppNew(bookcase, tags))
    /\ pc' = "filter"
    /\ last' = Last("open_filter", 0, None)
    /\ UNCHANGED <<build, render, outcome, raw, bookcase, visible_books, selected,
                   popup, book_popup, fuel>>

\* the cursor names a row: it is Some(i) with i an index of visible_books
CursorValid == selected # None /\ selected[1] < Len(visible_books)

\* Popup::Book => if let Some(i) = app.state.selected(): app.visible_books[i]
\* panics when i is no index of visible_books; get_book; run_popup_book
OpenBookPopup ==
    /\ pc = "loop"
    /\ popup = "Book"
    /\ last' = Last("open_book", 0, None)
    /\ IF selected = None
       THEN /\ popup' = "None"
            /\ UNCHANGED <<pc, outcome, visible_books, selected, filter_popup,
                           book_popup>>
       ELSE IF selected[1] >= Len(visible_books)
       THEN Exit("panic_index")
       ELSE LET b == GetBook(bookcase, visible_books[selected[1] + 1])
            IN IF b = None
               THEN /\ popup' = "None"
                    /\ UNCHANGED <<pc, outcome, visible_books, selected,
                                   filter_popup, book_popup>>
               ELSE /\ \E tags \in Orders(b[1].tags) :
                          book_popup' = Some(BookPopupAppNew(b[1], tags))
                    /\ pc' = "book"
                    /\ UNCHANGED <<popup, outcome, visible_books, selected,
                                   filter_popup>>
    /\ UNCHANGED <<build, render, raw, bookcase, fuel>>

---------------------------------------------------------------------------
(* run_popup_filter: one turn of its loop is a draw, a poll and a key *)

\* terminal.draw(..)?, event::poll(..)? or event::read()? fails
FilterIoFail ==
    /\ pc = "filter"
    /\ last' = Last("filter_io", 0, None)
    /\ Exit("io_error")
    /\ UNCHANGED <<build, render, raw, bookcase, fuel>>

\* no key press arrives or no arm matches: the lists have been rendered
FilterNoKey ==
    /\ pc = "filter"
    /\ filter_popup' = Some(DrawPopupFilter(filter_popup[1]))
    /\ last' = Last("filter_no_key", 0, None)
    /\ UNCHANGED <<build, render, pc, outcome, raw, bookcase, visible_books,
                   selected, popup, book_popup, fuel>>

\* Enter => return Ok(Some(app_popup.into_filter())); then run_tui lines
\* 114-116 and 129: app.filter_currently_visible(&f); app.popup = None
FilterCommit ==
    /\ pc = "filter"
    /\ LET f == IntoFilter(DrawPopupFilter(filter_popup[1]))
       IN /\ visible_books' = FilterCurrentlyVisible(f, bookcase, visible_books)
          /\ last' = Last("filter_commit", 0, Some(f))
    /\ filter_popup' = None
    /\ popup' = "None"
    /\ pc' = "loop"
    /\ UNCHANGED <<build, render, outcome, raw, bookcase, selected, book_popup, fuel>>

\* Esc that applies the filter as Enter does
FilterCancelApplies ==
    /\ pc = "filter"
    /\ LET f == IntoFilter(DrawPopupFilter(filter_popup[1]))
       IN /\ visible_books' = FilterCurrentlyVisible(f, bookcase, visible_books)
          /\ last' = Last("filter_cancel", 0, Some(f))
    /\ filter_popup' = None
    /\ popup' = "None"
    /\ pc' = "loop"
    /\ UNCHANGED <<build, render, outcome, raw, bookcase, selected, book_popup, fuel>>

\* Esc => return Ok(None); then run_tui line 129; last.res is the filter the
\* dialog held and dropped
FilterCancel ==
    /\ pc = "filter"
    /\ filter_popup' = None
    /\ popup' = "None"
    /\ pc' = "loop"
    /\ last' = Last("filter_cancel", 0,
                     Some(IntoFilter(DrawPopupFilter(filter_popup[1]))))
    /\ UNCHANGED <<build, render, outcome, raw, bookcase, visible_books, selected,
                   book_popup, fuel>>

\* Char('k') | Up => app_popup.move_by(-1); Char('j') | Down => app_popup.move_by(1)
FilterKeyMoveBy ==
    /\ pc = "filter"
    /\ fuel > 0
    /\ fuel' = fuel - 1
    /\ \E d \in {1, -1} :
          LET app == DrawPopupFilter(filter_popup[1])
          IN /\ last' = Last("filter_move_by", d, None)
             /\ IF ListMoveByPanics(CurrentList(app), d)
                THEN Exit("panic_overflow")
                ELSE /\ filter_popup' = Some(FilterPopupMoveBy(app, d))
                     /\ UNCHANGED <<pc, outcome, visible_books, selected, popup,
                                    book_popup>>
    /\ UNCHANGED <<build, render, raw, bookcase>>

\* Backspace | Delete => app_popup.deselect()
FilterKeyDeselect ==
    /\ pc = "filter"
    /\ fuel > 0
    /\ fuel' = fuel - 1
    /\ filter_popup' = Some(FilterPopupDeselect(DrawPopupFilter(filter_popup[1])))
    /\ last' = Last("filter_deselect", 0, None)
    /\ UNCHANGED <<build, render, pc, outcome, raw, bookcase, visible_books,
                   selected, popup, book_popup>>

\* Tab => app_popup.tab()
FilterKeyTab ==
    /\ pc = "filter"
    /\ filter_popup' = Some(FilterPopupTab(DrawPopupFilter(filter_popup[1])))
    /\ last' = Last("filter_tab", 0, None)
    /\ UNCHANGED <<build, render, pc, outcome, raw, bookcase, visible_books,
                   selected, popup, book_popup, fuel>>

\* Left | Right => app_popup.toggle()
FilterKeyToggle ==
    /\ pc = "filter"
    /\ fuel > 0
    /\ fuel' = fuel - 1
    /\ filter_popup' = Some(FilterPopupToggle(DrawPopupFilter(filter_popup[1])))
    /\ last' = Last("filter_toggle", 0, None)
    /\ UNCHANGED <<build, render, pc, outcome, raw, bookcase, visible_books,
                   selected, popup, book_popup>>

---------------------------------------------------------------------------
(* run_popup_book *)

\* terminal.draw(..)?, event::poll(..)? or event::read()? fails
BookIoFail ==
    /\ pc = "book"
    /\ last' = Last("book_io", 0, None)
    /\ Exit("io_error")
    /\ UNCHANGED <<build, render, raw, bookcase, fuel>>

\* Enter => return Ok(Some(app_popup.into_book())); then run_tui lines
\* 122-124 and 129: app.bookcase.books.insert(app.visible_books[i], book)
BookCommit ==
    /\ pc = "book"
    /\ LET book == IntoBook(book_popup[1])
           id == visible_books[selected[1] + 1]
       IN /\ bookcase' = [k \in DOMAIN bookcase \cup {id} |->
                             IF k = id THEN book ELSE bookcase[k]]
          /\ last' = Last("book_commit", id, Some(book))
    /\ book_popup' = None
    /\ popup' = "None"
    /\ pc' = "loop"
    /\ UNCHANGED <<build, render, outcome, raw, visible_books, selected,
                   filter_popup, fuel>>

\* Esc that stores the edited book as Enter does
BookCancelStoresBook ==
    /\ pc = "book"
    /\ LET id == visible_books[selected[1] + 1]
       IN bookcase' = [k \in DOMAIN bookcase \cup {id} |->
                          IF k = id THEN IntoBook(book_popup[1]) ELSE bookcase[k]]
    /\ book_popup' = None
    /\ popup' = "None"
    /\ pc' = "loop"
    /\ last' = Last("book_cancel", 0, last.res)
    /\ UNCHANGED <<build, render, outcome, raw, visible_books, selected,
                   filter_popup, fuel>>

\* Esc => return Ok(None); then run_tui line 129
BookCancel ==
    /\ pc = "book"
    /\ book_popup' = None
    /\ popup' = "None"
    /\ pc' = "loop"
    /\ last' = Last("book_cancel", 0, last.res)
    /\ UNCHANGED <<build, render, outcome, raw, bookcase, visible_books, selected,
                   filter_popup, fuel>>

\* Tab => app_popup.tab()
BookKeyTab ==
    /\ pc = "book"
    /\ book_popup' = Some(BookPopupTab(book_popup[1]))
    /\ last' = Last("book_tab", 0, last.res)
    /\ UNCHANGED <<build, render, pc, outcome, raw, bookcase, visible_books,
                   selected, popup, filter_popup, fuel>>

\* Backspace => app_popup.backspace()
BookKeyBackspace ==
    /\ pc = "book"
    /\ fuel > 0
    /\ fuel' = fuel - 1
    /\ book_popup' = Some(BookPopupBackspace(book_popup[1]))
    /\ last' = Last("book_backspace", 0,
                     Append(last.res,
                            Pressed(book_popup[1].current_field, "Backspace")))
    /\ UNCHANGED <<build, render, pc, outcome, raw, bookcase, visible_books,
                   selected, popup, filter_popup>>

\* Char(value) => app_popup.input(value)
BookKeyInput ==
    /\ pc = "book"
    /\ fuel > 0
    /\ fuel' = fuel - 1
    /\ \E value \in Chars :
          /\ book_popup' = Some(BookPopupInput(book_popup[1], value))
          /\ last' = Last("book_input", Ord(value),
                           Append(last.res,
                                  Pressed(book_popup[1].current_field, value)))
    /\ UNCHANGED <<build, render, pc, outcome, raw, bookcase, visible_books,
                   selected, popup, filter_popup>>

---------------------------------------------------------------------------

Next ==
    \/ EnableRawMode
    \/ TerminalNew
    \/ Draw
    \/ PollFail
    \/ NoKey
    \/ KeyQuit
    \/ KeyMoveBy
    \/ KeyMoveToEnd
    \/ KeyFilter
    \/ KeyResetVisible
    \/ KeyEnter
    \/ KeyRandom
    \/ OpenFilterPopup
    \/ OpenBookPopup
    \/ FilterIoFail
    \/ FilterNoKey
    \/ FilterCommit
    \/ FilterCancel
    \/ FilterKeyMoveBy
    \/ FilterKeyDeselect
    \/ FilterKeyTab
    \/ FilterKeyToggle
    \/ BookIoFail
    \/ BookCommit
    \/ BookCancel
    \/ BookKeyTab
    \/ BookKeyBackspace
    \/ BookKeyInput

Spec == Init /\ [][Next]_vars

---------------------------------------------------------------------------
(* The methods of App called directly, with any argument *)

\* rows of the longest list the navigation is tried on
MaxNavLen == 3
\* filters applied one after the other to one visible set
MaxFilters == 2

\* a bookcase of n books
PlainBookcase(n) == [k \in 1..n |-> Book(Str("a"), Str("a"), "Unread", {})]

NavInit ==
    /\ build \in {"debug", "release"}
    /\ render = "keep"
    /\ pc = "api"
    /\ outcome = "running"
    /\ raw = FALSE
    /\ bookcase \in {PlainBookcase(n) : n \in 0..MaxNavLen}
    /\ visible_books = AppNewVisible(bookcase)
    /\ selected = AppNewSelected
    /\ popup = "None"
    /\ filter_popup = None
    /\ book_popup = None
    /\ fuel = 0
    /\ last = Last("app_new", 0, None)

\* app.move_by(d)
ApiMoveBy ==
    /\ pc = "api"
    /\ \E d \in Isize :
          /\ last' = Last("move_by", d, last.res)
          /\ IF AppMoveByPanics(selected, d, visible_books)
             THEN Exit("panic_overflow")
             ELSE /\ selected' = AppMoveBy(selected, d, visible_books)
                  /\ UNCHANGED <<pc, outcome, visible_books, popup, filter_popup,
                                 book_popup>>
    /\ UNCHANGED <<build, render, raw, bookcase, fuel>>

\* app.move_to(i)
ApiMoveTo ==
    /\ pc = "api"
    /\ \E i \in Isize :
          /\ last' = Last("move_to", i, last.res)
          /\ selected' = AppMoveTo(i, visible_books)
    /\ UNCHANGED <<build, render, pc, outcome, raw, bookcase, visible_books, popup,
                   filter_popup, book_popup, fuel>>

NavNext == ApiMoveBy \/ ApiMoveTo

SpecNav == NavInit /\ [][NavNext]_vars

\* three books: the titles are not in the order of the ids, two titles are
\* equal, two authors differ in case only
ThreeBooks ==
    <<Book(Str("b"), Str("a"), "Unread", {}),
      Book(Str("a"), Str("b"), "Read", {Str("a")}),
      Book(Str("a"), Str("A"), "Reading", {Str("a"), Str("b")})>>

\* a bookcase whose ids are not 1..n (books were removed)
SparseBookcase ==
    (2 :> Book(Str("b"), Str("b"), "Unread", {Str("b")})) @@
    (5 :> Book(Str("a"), Str("a"), "Unread", {}))

ViewBookcases ==
    {NewBookcase, ExampleBookcase, LoadedBookcase, ThreeBooks, SparseBookcase}

\* the filters applied
ViewFilters ==
    [author_match : {<< >>, <<Str("A")>>, <<Str("b")>>},
     read : {{}, {"Unread"}},
     tags : {<< >>, <<Str("a")>>}]

\* last.res is here the sequence of the filters applied since visible_books
\* was last set to every key of the bookcase
ViewInit ==
    /\ build \in {"debug", "release"}
    /\ render = "keep"
    /\ pc = "api"
    /\ outcome = "running"
    /\ raw = FALSE
    /\ bookcase \in ViewBookcases
    /\ visible_books = AppNewVisible(bookcase)
    /\ selected = AppNewSelected
    /\ popup = "None"
    /\ filter_popup = None
    /\ book_popup = None
    /\ fuel = 0
    /\ last = Last("app_new", 0, << >>)

\* app.filter_currently_visible(&f)
ApiFilterCurrentlyVisible ==
    /\ pc = "api"
    /\ Len(last.res) < MaxFilters
    /\ \E f \in ViewFilters :
          /\ visible_books' = FilterCurrentlyVisible(f, bookcase, visible_books)
          /\ last' = Last("filter_currently_visible", 0, Append(last.res, f))
    /\ UNCHANGED <<build, render, pc, outcome, raw, bookcase, selected, popup,
                   filter_popup, book_popup, fuel>>

\* app.reset_visible()
ApiResetVisible ==
    /\ pc = "api"
    /\ visible_books' = ResetVisible(bookcase)
    /\ last' = Last("reset_visible", Len(visible_books), << >>)
    /\ UNCHANGED <<build, render, pc, outcome, raw, bookcase, selected, popup,
                   filter_popup, book_popup, fuel>>

\* sort_by that moves the cursor along with the book it was on
ApiSortByFollowsBook ==
    /\ pc = "api"
    /\ \E sorting \in {"Title", "Author"} :
          LET sorted == SortBy(sorting, bookcase, visible_books)
          IN /\ visible_books' = sorted
             /\ selected' =
                   IF selected # None /\ selected[1] < Len(visible_books)
                   THEN Some((CHOOSE k \in DOMAIN sorted :
                                 sorted[k] = visible_books[selected[1] + 1]) - 1)
                   ELSE selected
             /\ last' = Last("sort_by", IF sorting = "Title" THEN 0 ELSE 1, last.res)
    /\ UNCHANGED <<build, render, pc, outcome, raw, bookcase, popup,
                   filter_popup, book_popup, fuel>>

\* app.sort_by(&sorting)
ApiSortBy ==
    /\ pc = "api"
    /\ \E sorting \in {"Title", "Author"} :
          /\ visible_books' = SortBy(sorting, bookcase, visible_books)
          /\ last' = Last("sort_by", IF sorting = "Title" THEN 0 ELSE 1, last.res)
    /\ UNCHANGED <<build, render, pc, outcome, raw, bookcase, selected, popup,
                   filter_popup, book_popup, fuel>>

\* app.move_to(i) to one of the rows shown
ViewMoveTo ==
    /\ pc = "api"
    /\ \E i \in 1..Len(visible_books) :
          /\ selected' = AppMoveTo(i, visible_books)
          /\ last' = Last("move_to", i, last.res)
    /\ UNCHANGED <<build, render, pc, outcome, raw, bookcase, visible_books, popup,
                   filter_popup, book_popup, fuel>>

ViewNext ==
    ApiFilterCurrentlyVisible \/ ApiResetVisible \/ ApiSortBy \/ ViewMoveTo

SpecView == ViewInit /\ [][ViewNext]_vars

---------------------------------------------------------------------------
(* One run of a popup, from the turn of run_tui that opens it *)

\* keys that change a field of the Book popup in one run of it
MaxEditKeys == 3
\* keys that move or change a selection of the Filter popup in one run of it
MaxDialogKeys == 2

\* a bookcase whose ids are not 1..n, with a book of two tags and a book of
\* none
EditedBookcase ==
    (2 :> Book(Str("b"), Str("a"), "Read", {Str("a"), Str("b")})) @@
    (5 :> Book(Str("a"), Str("b"), "Unread", {}))

\* Enter was pressed with the cursor on a row: lines 118-121 come next (the
\* popup does no arithmetic, so one build stands for both)
EditorInit ==
    /\ build = "debug"
    /\ render = "keep"
    /\ pc = "loop"
    /\ outcome = "running"
    /\ raw = TRUE
    /\ bookcase = EditedBookcase
    /\ visible_books = AppNewVisible(bookcase)
    /\ \E i \in 0..(Len(visible_books) - 1) : selected = Some(i)
    /\ popup = "Book"
    /\ filter_popup = None
    /\ book_popup = None
    /\ fuel = MaxEditKeys
    /\ last = Last("key_enter", 0, None)

EditorNext ==
    \/ OpenBookPopup
    \/ BookIoFail
    \/ BookCommit
    \/ BookCancel
    \/ BookKeyTab
    \/ BookKeyBackspace
    \/ BookKeyInput

SpecEditor == EditorInit /\ [][EditorNext]_vars

\* a bookcase with two books of one author and a book of another between them
AuthorTwiceBookcase ==
    <<Book(Str("a"), Str("a"), "Unread", {}),
      Book(Str("b"), Str("b"), "Unread", {}),
      Book(Str("b"), Str("a"), "Read", {})>>

\* 'f' was pressed: lines 112-113 come next
DialogInit ==
    /\ build \in {"debug", "release"}
    /\ render \in RenderModes
    /\ pc = "loop"
    /\ outcome = "running"
    /\ raw = TRUE
    /\ bookcase \in {NewBookcase, ThreeBooks, SparseBookcase, AuthorTwiceBookcase}
    /\ visible_books = AppNewVisible(bookcase)
    /\ selected = AppNewSelected
    /\ popup = "Filter"
    /\ filter_popup = None
    /\ book_popup = None
    /\ fuel = MaxDialogKeys
    /\ last = Last("key_filter", 0, None)

DialogNext ==
    \/ OpenFilterPopup
    \/ FilterIoFail
    \/ FilterNoKey
    \/ FilterCommit
    \/ FilterCancel
    \/ FilterKeyMoveBy
    \/ FilterKeyDeselect
    \/ FilterKeyTab
    \/ FilterKeyToggle

SpecDialog == DialogInit /\ [][DialogNext]_vars

---------------------------------------------------------------------------
(* The methods of Bookcase that add and remove books, called directly as the
   Add and Remove commands of main.rs call them *)

\* calls of add_book in one run
MaxAdds == 3

\* Bookcase::add_book: the key the new book gets
AddBookKey(bc) ==
    IF DOMAIN bc = {} THEN 1
    ELSE (CHOOSE m \in DOMAIN bc : \A k \in DOMAIN bc : k <= m) + 1

\* Bookcase::add_book
AddBook(bc, title, author) ==
    [k \in DOMAIN bc \cup {AddBookKey(bc)} |->
        IF k = AddBookKey(bc) THEN Book(title, author, "Unread", {}) ELSE bc[k]]

\* Bookcase::remove_book
RemoveBook(bc, id) == [k \in DOMAIN bc \ {id} |-> bc[k]]

\* last.res is here the sequence of the keys add_book has assigned
BooksInit ==
    /\ build \in {"debug", "release"}
    /\ render = "keep"
    /\ pc = "api"
    /\ outcome = "running"
    /\ raw = FALSE
    /\ bookcase \in {NewBookcase, ExampleBookcase}
    /\ visible_books = << >>
    /\ selected = None
    /\ popup = "None"
    /\ filter_popup = None
    /\ book_popup = None
    /\ fuel = 0
    /\ last = Last("bookcase", 0, << >>)

\* books.add_book(title, author)
ApiAddBook ==
    /\ pc = "api"
    /\ Len(last.res) < MaxAdds
    /\ \E title, author \in {Str("a"), Str("b")} :
          bookcase' = AddBook(bookcase, title, author)
    /\ last' = Last("add_book", AddBookKey(bookcase),
                    Append(last.res, AddBookKey(bookcase)))
    /\ UNCHANGED <<build, render, pc, outcome, raw, visible_books, selected, popup,
                   filter_popup, book_popup, fuel>>

\* books.remove_book(id), of an id that has a book or has none
ApiRemoveBook ==
    /\ pc = "api"
    /\ \E id \in 1..(MaxAdds + 2) :
          /\ bookcase' = RemoveBook(bookcase, id)
          /\ last' = Last("remove_book", id, last.res)
    /\ UNCHANGED <<build, render, pc, outcome, raw, visible_books, selected, popup,
                   filter_popup, book_popup, fuel>>

BooksNext == ApiAddBook \/ ApiRemoveBook

SpecBooks == BooksInit /\ [][BooksNext]_vars

---------------------------------------------------------------------------
(* Properties *)

\* the program is inside run_tui (the App exists)
InRunTui == pc \in {"loop", "poll", "filter", "book"}

\* C1: in the Main Browser, after any sequence of operations, whenever
\* visible_books is non-empty the cursor is an index of it.
C1_CursorInRange ==
    (InRunTui /\ visible_books # << >>) => CursorValid

\* C2: the editor is opened by the edit key only with a valid cursor; with
\* an empty visible_books or a cursor that names no row, the edit key opens
\* no editor and the program does not abort: it stays browsing with
\* bookcase and visible_books unchanged.
C2_EditNeedsValidCursor ==
    [][(pc = "loop" /\ popup = "Book" /\ ~CursorValid)
          => /\ pc' = "loop"
             /\ outcome' = "running"
             /\ popup' = "None"
             /\ book_popup' = None
             /\ UNCHANGED <<bookcase, visible_books>>]_vars

\* C3: raw mode is enabled while the loop runs and has been disabled when
\* start_tui has returned, on normal quit and on any failure of terminal
\* creation, clearing, drawing, polling or event reading.
C3_RawModeReleased ==
    /\ InRunTui => raw
    /\ (pc = "done" /\ outcome = "ok") => ~raw
    /\ (pc = "done" /\ outcome = "io_error"
          /\ last.op \in {"app_new", "draw", "poll", "filter_io", "book_io"}) => ~raw

\* C4: the Filter returned by commit has, on each of the three dimensions,
\* exactly the values of that dimension's list whose selected flag is set
\* (for authors in the order of the list).
C4_CommitReturnsSelected ==
    [][(pc = "filter" /\ last'.op = "filter_commit")
          => /\ last'.res[1].author_match = SelectedValues(filter_popup[1].authors)
             /\ last'.res[1].read = Range(SelectedValues(filter_popup[1].read))
             /\ Range(last'.res[1].tags) = Range(SelectedValues(filter_popup[1].tags))]_vars

\* the keys of bc, in ascending order, whose book matches every filter of fs
MatchingAll(fs, bc) ==
    SelectSeq(Keys(bc), LAMBDA k : \A j \in DOMAIN fs : MatchBook(fs[j], bc[k]))

\* C5: from the full visible set, applying Filter A and then Filter B leaves
\* the visible set that the predicate 'matches A and matches B' selects from
\* the full id set.
C5_FilterComposition ==
    (last.op = "filter_currently_visible" /\ Len(last.res) = 2)
        => visible_books = MatchingAll(last.res, bookcase)

\* C5 witness: two filters were applied, the first hid a book the second
\* alone would show, and a book is left
C5_Witness ==
    /\ last.op = "filter_currently_visible"
    /\ Len(last.res) = 2
    /\ visible_books # << >>
    /\ visible_books # MatchingAll(<<last.res[2]>>, bookcase)
    /\ visible_books # MatchingAll(<<last.res[1]>>, bookcase)

\* C6: applying a Filter replaces visible_books by the subsequence of the
\* visible ids whose Book matches, in the order they had in visible_books.
C6_FilterKeepsOrder ==
    [][(last'.op = "filter_currently_visible")
          => visible_books' =
                SelectSeq(visible_books,
                          LAMBDA k : MatchBook(last'.res[Len(last'.res)], bookcase[k]))]_vars

\* C7: move_by on an empty sequence is a no-op that does not abort: in the
\* Main Browser with visible_books empty, and in a selection list without
\* values.
C7_MoveByOnEmptyIsNoOp ==
    [][/\ (last'.op = "move_by" /\ visible_books = << >>)
            => (outcome' = "running" /\ UNCHANGED <<selected, visible_books, bookcase>>)
       /\ (last'.op = "filter_move_by" /\ CurrentList(filter_popup[1]).values = << >>)
            => /\ outcome' = "running"
               /\ filter_popup' # None
               /\ CurrentList(filter_popup'[1]).cursor_position
                     = CurrentList(filter_popup[1]).cursor_position
               /\ UNCHANGED <<selected, visible_books, bookcase>>]_vars

\* C8: for a length L > 0, a cursor c in [0, L-1] and any signed delta,
\* move_by yields an index in [0, L-1]; L-1 for delta >= L; 0 for
\* c + delta < 0; and c for delta = 0.
C8_MoveByClamps ==
    [][(last'.op = "move_by" /\ visible_books # << >> /\ CursorValid)
          => LET L == Len(visible_books)
                 c == selected[1]
                 d == last'.arg
             IN /\ outcome' = "running"
                /\ selected' # None
                /\ selected'[1] \in 0..(L - 1)
                /\ d >= L => selected'[1] = L - 1
                /\ c + d < 0 => selected'[1] = 0
                /\ d = 0 => selected'[1] = c]_vars

\* C8 witness: a move past the end of a list of several rows has stopped at
\* the last row
C8_Witness ==
    /\ last.op = "move_by"
    /\ last.arg >= Len(visible_books)
    /\ Len(visible_books) >= 2
    /\ selected = Some(Len(visible_books) - 1)

\* C9: on a list of length L > 0, move_to(-1) selects L-1, move_to(0)
\* selects 0 and move_to(n) for 1 <= n <= L selects n-1.
C9_MoveTo ==
    [][(last'.op = "move_to" /\ visible_books # << >>)
          => LET L == Len(visible_books)
                 n == last'.arg
             IN /\ n = -1 => selected' = Some(L - 1)
                /\ n = 0 => selected' = Some(0)
                /\ (1 <= n /\ n <= L) => selected' = Some(n - 1)]_vars

\* C9 witness: move_to(L) has selected the last of several rows
C9_Witness ==
    /\ last.op = "move_to"
    /\ Len(visible_books) >= 2
    /\ last.arg = Len(visible_books)
    /\ selected = Some(Len(visible_books) - 1)

\* C10: with visible_books of length L > 0 the random jump leaves the cursor
\* in [0, L), and every index in [0, L) is a possible outcome of it.
C10_RandomJumpReachesAll ==
    /\ (last.op = "random" /\ pc = "loop") => CursorValid
    /\ (pc = "poll" /\ visible_books # << >>)
          => \A k \in 0..(Len(visible_books) - 1) :
                ENABLED (KeyRandom /\ selected' = Some(k))

\* C11: '?' pressed on an empty visible_books draws no random index from an
\* empty range: the step is a no-op, the cursor, visible_books and the
\* bookcase are unchanged and the loop keeps running.
C11_RandomJumpGuarded ==
    [][(last'.op = "random" /\ visible_books = << >>)
          => /\ outcome' = "running"
             /\ pc' = "loop"
             /\ UNCHANGED <<selected, visible_books, bookcase>>]_vars

\* C12 as stated: the focus of the Book popup starts on Title, is always one
\* of Title, Author, Tags, and tab moves it Title -> Author -> Tags -> Title.
C12_TabCycleOfThree ==
    [][book_popup' # None
          => LET f == book_popup'[1].current_field
             IN /\ f \in {"Title", "Author", "Tags"}
                /\ last'.op = "open_book" => f = "Title"
                /\ last'.op = "book_tab"
                      => f = CASE book_popup[1].current_field = "Title" -> "Author"
                               [] book_popup[1].current_field = "Author" -> "Tags"
                               [] OTHER -> "Title"]_vars

\* C12 amended: the focus of the Book popup starts on Title, is always one of
\* Title, Author, Read, Tags, tab moves it Title -> Author -> Read -> Tags ->
\* Title and changes nothing else, and four tabs (and no fewer) bring the
\* popup back to where it was.
C12_TabCycleOfFour ==
    [][book_popup' # None
          => LET app == book_popup'[1]
                 f == app.current_field
                 tab1 == BookPopupTab(app)
                 tab2 == BookPopupTab(tab1)
                 tab3 == BookPopupTab(tab2)
             IN /\ f \in {"Title", "Author", "Read", "Tags"}
                /\ last'.op = "open_book" => f = "Title"
                /\ last'.op = "book_tab"
                      => /\ f = CASE book_popup[1].current_field = "Title" -> "Author"
                                  [] book_popup[1].current_field = "Author" -> "Read"
                                  [] book_popup[1].current_field = "Read" -> "Tags"
                                  [] OTHER -> "Title"
                         /\ app.book = book_popup[1].book
                         /\ app.tags = book_popup[1].tags
                /\ BookPopupTab(tab3) = app
                /\ app \notin {tab1, tab2, tab3}]_vars

\* tabs have taken the focus through every field and back to Title
C12_Witness ==
    /\ book_popup # None
    /\ last.op = "book_tab"
    /\ book_popup[1].current_field = "Title"

\* C13: with the focus on Tags, backspace removes the last character of the
\* last tag; a last tag left empty by it, that is not the only entry, is
\* removed in the same step; backspace on no tags is a no-op. (What becomes
\* of an only entry that was empty before the key is left open.)
C13_BackspaceDropsEmptiedTag ==
    [][(last'.op = "book_backspace" /\ book_popup[1].current_field = "Tags")
          => LET tags == book_popup[1].tags
                 after == book_popup'[1].tags
                 n == Len(tags)
             IN IF tags = << >> THEN after = << >>
                ELSE LET rest == SubSeq(tags, 1, n - 1)
                         cut == StrPop(tags[n])
                     IN IF cut = << >> /\ n > 1 THEN after = rest
                        ELSE IF tags[n] = << >> THEN after \in {rest, tags}
                        ELSE after = Append(rest, cut)]_vars

\* C14: the Book popup opened on a book without tags, the keys s1, separator,
\* s2 typed with the focus on Tags (s1 and s2 non-empty strings without the
\* separator) and nothing else typed, then Enter: the book returned has
\* exactly the tags s1 and s2, and no tag holds the separator.
C14_SeparatorSplitsTags ==
    [][last'.op = "book_commit"
          => LET h == last.res
                 keys == [j \in DOMAIN h |-> h[j].k]
                 old == bookcase[last'.arg]
                 new == last'.res[1]
             IN \A p \in 2..(Len(h) - 1) :
                   ( /\ old.tags = {}
                     /\ \A j \in DOMAIN h : h[j].f = "Tags"
                     /\ keys[p] = SEPARATOR_CHAR
                     /\ \A j \in DOMAIN h \ {p} :
                           keys[j] \notin {SEPARATOR_CHAR, "Backspace"} )
                   => /\ new.tags = {SubSeq(keys, 1, p - 1),
                                     SubSeq(keys, p + 1, Len(keys))}
                      /\ \A t \in new.tags :
                            \A j \in DOMAIN t : t[j] # SEPARATOR_CHAR]_vars

\* the untagged book 5 was committed with the two tags a and b after three
\* keys that left its title and author alone
C14_Witness ==
    /\ last.op = "book_commit"
    /\ last.arg = 5
    /\ fuel = MaxEditKeys - 3
    /\ last.res[1] = Book(Str("a"), Str("b"), "Unread", {Str("a"), Str("b")})

\* C15: the Book popup opened on a book and left with Enter after no
\* character and no backspace (tabs allowed) returns a book of the same
\* title, author, read state and set of tags.
C15_CommitWithoutEditsRoundTrips ==
    [][(last'.op = "book_commit" /\ last.res = << >>)
          => LET old == bookcase[last'.arg]
                 new == last'.res[1]
             IN /\ new.title = old.title
                /\ new.author = old.author
                /\ new.read = old.read
                /\ new.tags = old.tags]_vars

\* book 2, with its two tags, was committed with no key spent on a field
C15_Witness ==
    /\ last.op = "book_commit"
    /\ last.arg = 2
    /\ fuel = MaxEditKeys
    /\ Cardinality(last.res[1].tags) = 2

\* C16: from the opening of the Book popup on, no Tab, Backspace or character
\* key changes the bookcase, and Esc closes the popup with every entry of the
\* bookcase, visible_books and the cursor as they were when it opened.
C16_CancelDiscardsEdits ==
    [][last'.op \in {"open_book", "book_tab", "book_backspace", "book_input",
                     "book_cancel"}
          => /\ UNCHANGED <<bookcase, visible_books, selected>>
             /\ last'.op = "book_cancel"
                   => /\ book_popup' = None
                      /\ popup' = "None"
                      /\ outcome' = "running"]_vars

\* Esc after at least two keys that changed a field
C16_Witness ==
    /\ last.op = "book_cancel"
    /\ Len(last.res) >= 2
    /\ bookcase = EditedBookcase
    /\ selected # None

\* C17: Enter in the Book popup replaces exactly one entry of the bookcase,
\* the one whose id is under the cursor, by the book returned; the read state
\* of the new entry is that of the entry replaced; no other entry changes and
\* no id is added or removed.
C17_CommitReplacesOneEntry ==
    [][last'.op = "book_commit"
          => LET id == visible_books[selected[1] + 1]
             IN /\ last'.arg = id
                /\ UNCHANGED <<visible_books, selected>>
                /\ DOMAIN bookcase' = DOMAIN bookcase
                /\ \A k \in DOMAIN bookcase \ {id} : bookcase'[k] = bookcase[k]
                /\ bookcase'[id] = last'.res[1]
                /\ bookcase'[id].read = bookcase[id].read]_vars

\* book 2, which is Read, was committed with a change; book 5 is as it was
C17_Witness ==
    /\ last.op = "book_commit"
    /\ last.arg = 2
    /\ bookcase[2] # EditedBookcase[2]
    /\ bookcase[2].read = "Read"
    /\ bookcase[5] = EditedBookcase[5]

\* a list shows its cursor: its state names one of its rows
Highlighted(sl) == sl.state # None /\ sl.state[1] < Len(sl.values)

\* the lists of the Filter popup that show a cursor
HighlightedFields(app) ==
    {f \in {"Author", "Read", "Tags"} :
        Highlighted(CurrentList([app EXCEPT !.current_field = f]))}

\* C18 as stated: the focus of the Filter popup starts on Author, tab moves
\* it Author -> Read -> Tags -> Author, and after the construction and after
\* any tab, move, toggle or deselect exactly one of the three lists shows a
\* cursor, the one that has the focus.
C18_ExactlyOneHighlighted ==
    [][filter_popup' # None
          => LET app == filter_popup'[1]
             IN /\ last'.op = "open_filter" => app.current_field = "Author"
                /\ last'.op = "filter_tab"
                      => app.current_field =
                            CASE filter_popup[1].current_field = "Author" -> "Read"
                              [] filter_popup[1].current_field = "Read" -> "Tags"
                              [] OTHER -> "Author"
                /\ HighlightedFields(app) = {app.current_field}]_vars

\* C18 amended: the focus starts on Author and tab moves it Author -> Read ->
\* Tags -> Author; at any time no list but the one that has the focus has a
\* selection state, and the list that has the focus shows its cursor, on the
\* row of its cursor position, whenever it has at least one value (a list
\* with no value shows no cursor).
C18_FocusedListHighlighted ==
    [][filter_popup' # None
          => LET app == filter_popup'[1]
                 cur == CurrentList(app)
             IN /\ last'.op = "open_filter" => app.current_field = "Author"
                /\ last'.op = "filter_tab"
                      => app.current_field =
                            CASE filter_popup[1].current_field = "Author" -> "Read"
                              [] filter_popup[1].current_field = "Read" -> "Tags"
                              [] OTHER -> "Author"
                /\ \A f \in {"Author", "Read", "Tags"} \ {app.current_field} :
                      CurrentList([app EXCEPT !.current_field = f]).state = None
                /\ HighlightedFields(app) \subseteq {app.current_field}
                /\ cur.values # << >>
                      => /\ HighlightedFields(app) = {app.current_field}
                         /\ cur.state = Some(cur.cursor_position)]_vars

\* the focus went round to Tags, a list of two values, and the cursor was
\* moved there: Tags shows its cursor, Author and Read do not
C18_Witness ==
    /\ filter_popup # None
    /\ last.op = "filter_move_by"
    /\ filter_popup[1].current_field = "Tags"
    /\ Len(filter_popup[1].tags.values) = 2
    /\ filter_popup[1].tags.state = Some(1)
    /\ HighlightedFields(filter_popup[1]) = {"Tags"}

\* C19: from the opening of the Filter popup on, no move, toggle, deselect or
\* tab (nor a turn without a key) changes visible_books; Esc closes the popup
\* with visible_books, the cursor and the bookcase unchanged; the one step
\* that applies a filter is Enter, which keeps of visible_books the ids that
\* match the filter returned.  (A step that ends the program drops the App
\* with its visible_books and cursor; the bookcase outlives it.)
C19_FilterAppliedOnCommitOnly ==
    [][/\ last'.op \in {"open_filter", "filter_no_key", "filter_move_by",
                        "filter_toggle", "filter_deselect", "filter_tab",
                        "filter_cancel"}
          => /\ bookcase' = bookcase
             /\ pc' # "done" => UNCHANGED <<visible_books, selected>>
             /\ last'.op = "filter_cancel"
                   => /\ filter_popup' = None
                      /\ popup' = "None"
                      /\ UNCHANGED <<visible_books, selected, outcome>>
       /\ last'.op = "filter_commit"
          => /\ UNCHANGED <<bookcase, selected>>
             /\ visible_books' =
                   SelectSeq(visible_books,
                             LAMBDA id : MatchBook(last'.res[1], bookcase[id]))]_vars

\* Esc dropped a filter that would have hidden a row: all rows still show
C19_Witness ==
    /\ last.op = "filter_cancel"
    /\ Len(visible_books) >= 2
    /\ visible_books = AppNewVisible(bookcase)
    /\ FilterCurrentlyVisible(last.res[1], bookcase, visible_books) # visible_books

\* C20: after any filters and sorts, reset_visible leaves in visible_books
\* every id of the bookcase, each once, in ascending order.
C20_ResetShowsEveryId ==
    last.op = "reset_visible"
       => /\ Range(visible_books) = DOMAIN bookcase
          /\ Len(visible_books) = Cardinality(DOMAIN bookcase)
          /\ \A i, j \in DOMAIN visible_books :
                i < j => visible_books[i] < visible_books[j]

\* reset_visible brought back rows that filters had hidden, on the bookcase
\* whose ids are not 1..n
C20_Witness ==
    /\ last.op = "reset_visible"
    /\ last.arg < Len(visible_books)
    /\ visible_books = <<2, 5>>

\* C21: sort_by changes the order of visible_books only: the set of its ids
\* and its length are as before, and afterwards the ids are in ascending
\* (non-descending) order of the title, or of the author, of their books.
C21_SortKeepsIdsAndOrders ==
    [][last'.op = "sort_by"
          => LET key(id) == IF last'.arg = 0 THEN bookcase[id].title
                            ELSE bookcase[id].author
             IN /\ Range(visible_books') = Range(visible_books)
                /\ Len(visible_books') = Len(visible_books)
                /\ \A i, j \in DOMAIN visible_books' :
                      i < j => ~StrLess(key(visible_books'[j]),
                                        key(visible_books'[i]))]_vars

\* the three books sorted by author: A, a, b are the authors of 3, 1, 2
C21_Witness ==
    /\ last.op = "sort_by"
    /\ last.arg = 1
    /\ bookcase = ThreeBooks
    /\ visible_books = <<3, 1, 2>>

\* C22 as stated: a visible book stays visible under a filter if and only if,
\* on each of author, read state and tags, the criterion is empty or holds
\* the book's value (for tags: one of the book's tags); the author has to be
\* an element of author_match.
C22_MatchIsMembership ==
    [][last'.op = "filter_currently_visible"
          => LET f == last'.res[Len(last'.res)]
             IN /\ Range(visible_books') \subseteq Range(visible_books)
                /\ \A id \in Range(visible_books) :
                      id \in Range(visible_books')
                        <=> /\ \/ f.author_match = << >>
                               \/ bookcase[id].author \in Range(f.author_match)
                            /\ \/ f.read = {}
                               \/ bookcase[id].read \in f.read
                            /\ \/ f.tags = << >>
                               \/ bookcase[id].tags \cap Range(f.tags) # {}]_vars

\* C22 amended: as C22, with the author compared without regard to ASCII
\* case: the author criterion holds when author_match is empty or one of its
\* elements equals the book's author once both are put in lower case.
C22_MatchIgnoresAuthorCase ==
    [][last'.op = "filter_currently_visible"
          => LET f == last'.res[Len(last'.res)]
             IN /\ Range(visible_books') \subseteq Range(visible_books)
                /\ \A id \in Range(visible_books) :
                      id \in Range(visible_books')
                        <=> /\ \/ f.author_match = << >>
                               \/ \E a \in Range(f.author_match) :
                                     StrLower(a) = StrLower(bookcase[id].author)
                            /\ \/ f.read = {}
                               \/ bookcase[id].read \in f.read
                            /\ \/ f.tags = << >>
                               \/ bookcase[id].tags \cap Range(f.tags) # {}]_vars

\* the filter on the author A alone kept the books of the authors a and A
\* and hid the book of the author b
C22_Witness ==
    /\ last.op = "filter_currently_visible"
    /\ bookcase = ThreeBooks
    /\ last.res = <<[author_match |-> <<Str("A")>>, read |-> {}, tags |-> << >>]>>
    /\ visible_books = <<1, 3>>

\* the least id of bc whose book has the author a
FirstIdOf(bc, a) ==
    CHOOSE id \in DOMAIN bc :
        /\ bc[id].author = a
        /\ \A other \in DOMAIN bc : bc[other].author = a => id <= other

\* C23: the author list the Filter popup is built with holds every author of
\* the bookcase exactly once, also when equal authors are not on adjacent
\* ids, in the order of their first occurrence by id.
C23_AuthorsListedOnce ==
    filter_popup # None
       => LET vs == filter_popup[1].authors.values
          IN /\ Range(vs) = {bookcase[id].author : id \in DOMAIN bookcase}
             /\ \A i, j \in DOMAIN vs : i # j => vs[i] # vs[j]
             /\ \A i, j \in DOMAIN vs :
                   i < j => FirstIdOf(bookcase, vs[i]) < FirstIdOf(bookcase, vs[j])

\* C24: the tag list get_tags returns, which the Filter popup is built with,
\* has no element twice, and its elements are exactly the tags that some book
\* of the bookcase has.
C24_TagsAreTheUnion ==
    filter_popup # None
       => LET vs == filter_popup[1].tags.values
          IN /\ \A i, j \in DOMAIN vs : i # j => vs[i] # vs[j]
             /\ \A t \in Range(vs) : \E id \in DOMAIN bookcase : t \in bookcase[id].tags
             /\ \A id \in DOMAIN bookcase : bookcase[id].tags \subseteq Range(vs)

\* the popup opened on the three books: the tag a, which two books have, and
\* the tag b are listed once each
C24_Witness ==
    /\ last.op = "open_filter"
    /\ filter_popup # None
    /\ bookcase = ThreeBooks
    /\ Len(filter_popup[1].tags.values) = 2

\* C25: over any sequence of add_book and remove_book, add_book assigns no
\* key it has assigned before (the key of a removed book is not used again),
\* and a key denotes the same book until that book is removed.
C25_IdsNotReused ==
    [][/\ last'.op = "add_book"
          => /\ last'.arg \notin Range(last.res)
             /\ last'.arg \notin DOMAIN bookcase
             /\ DOMAIN bookcase' = DOMAIN bookcase \cup {last'.arg}
       /\ last'.op = "remove_book"
          => DOMAIN bookcase' = DOMAIN bookcase \ {last'.arg}
       /\ \A id \in DOMAIN bookcase \cap DOMAIN bookcase' :
             bookcase'[id] = bookcase[id]]_vars

\* the steps of run_popup_filter and of run_popup_book
FilterPopupOps ==
    {"filter_io", "filter_no_key", "filter_commit", "filter_cancel",
     "filter_move_by", "filter_deselect", "filter_tab", "filter_toggle"}

BookPopupOps ==
    {"book_io", "book_commit", "book_cancel", "book_tab", "book_backspace",
     "book_input"}

\* C26: at most one popup runs at a time; from the key that asks for a popup
\* until the popup ends, the only steps are the opening of that popup and its
\* own steps, so no navigation, reset, popup key or quit of the Main Browser
\* is handled; Enter or Esc in the popup ends it with no popup left and the
\* Main Browser running next, and Esc in a popup does not end the program.
C26_PopupSuspendsBrowser ==
    [][/\ ~(filter_popup' # None /\ book_popup' # None)
       /\ pc' = "filter" => (popup' = "Filter" /\ filter_popup' # None)
       /\ pc' = "book" => (popup' = "Book" /\ book_popup' # None)
       /\ (pc = "loop" /\ popup = "Filter") => last'.op = "open_filter"
       /\ (pc = "loop" /\ popup = "Book") => last'.op = "open_book"
       /\ pc = "filter" => last'.op \in FilterPopupOps
       /\ pc = "book" => last'.op \in BookPopupOps
       /\ last'.op \in {"filter_commit", "filter_cancel", "book_commit",
                        "book_cancel"}
          => /\ pc' = "loop"
             /\ popup' = "None"
             /\ filter_popup' = None
             /\ book_popup' = None
             /\ outcome' = "running"
             /\ raw' = TRUE]_vars

\* Esc ended a popup in which keys had been pressed: the program runs on
C26_Witness ==
    /\ last.op \in {"filter_cancel", "book_cancel"}
    /\ fuel < MaxPopupKeys
    /\ pc = "loop"
    /\ outcome = "running"

\* C27: sort_by leaves the index of the cursor as it was, whatever
\* visible_books and the index are, also when another id comes to stand at
\* that index.
C27_SortKeepsCursorIndex ==
    [][last'.op = "sort_by" => selected' = selected]_vars

\* the cursor is on the third row after the three books were sorted by
\* author: the order 3, 1, 2 puts book 2 there
C27_Witness ==
    /\ last.op = "sort_by"
    /\ last.arg = 1
    /\ bookcase = ThreeBooks
    /\ selected = Some(2)
    /\ visible_books = <<3, 1, 2>>

\* C28: the Book popup opened on a book whose tags are all non-empty, then
\* any characters (the separator too), backspaces and tabs, then Enter: the
\* book returned has no empty tag.
C28_NoEmptyTagCommitted ==
    [][(last'.op = "book_commit" /\ << >> \notin bookcase[last'.arg].tags)
          => << >> \notin last'.res[1].tags]_vars

=============================================================================
